---- MODULE Spec2Model ----
(***************************************************************************)
(* A model of the expression language of mbsw_typechecker: the expression  *)
(* tree (expression.rs), the type checker typecheck and the evaluator      *)
(* eval_t (typecheck.rs), and the driver function test (main.rs).          *)
(*                                                                         *)
(* An expression is a tuple: a literal is <<"One">>, a binary node is      *)
(* <<"Plus", left, right>>.  A Result is <<"Ok", v>> or <<"Err", message>>.*)
(* A message is the tuple of the words of the string literal in the source *)
(* (split at the spaces), so that what a message names can be read off     *)
(* it; Text joins the words back to the string.                            *)
(***************************************************************************)
EXTENDS Integers, Sequences, FiniteSets, TLC

VARIABLES
    expr,       \* the expression tree handed to the operation
    overflow_checks, \* whether the build checks integer overflow (debug) or wraps (release)
    pc,         \* where the caller is: "start", "rendered", "checking", "checked",
                \* "printed", "evaluated"
    rendered,   \* the string Display wrote for expr, or ""
    result,     \* test's local `result`: what typecheck returned, or <<"None">>
    out,        \* the line test printed, or ""
    value,      \* what eval_t returned (or <<"Panic">>), or <<"None">>
    stack,      \* the call stack of a typecheck run, innermost frame last
    ret,        \* the value the innermost finished typecheck call returned, or <<"None">>
    log         \* the events of the typecheck run, in order

vars == <<expr, overflow_checks, pc, rendered, result, out, value, stack, ret, log>>

----------------------------------------------------------------------------
(* Bounds of the model *)

\* expressions with at most MaxOps binary nodes are inputs
MaxOps == 2

\* the longest chain of nested binary nodes of the deep inputs
MaxChain == 6

(* i32::MAX *)
I32Max == 2147483647

I32Min == -I32Max - 1

----------------------------------------------------------------------------
(* expression.rs: the expression tree *)

Literals == {"One", "Zero", "ETrue", "EFalse"}

BinOps == {"Plus", "Mult", "Or", "And"}

Leaves == {<<l>> : l \in Literals}

Nodes(L, R) == {<<op, l, r>> : op \in BinOps, l \in L, r \in R}

IsLeaf(e) == Len(e) = 1

\* the sequence whose element k + 1 is the set of the trees with exactly k
\* binary nodes, for k = 0, .., n
RECURSIVE LevelsUpTo(_)
LevelsUpTo(n) ==
    IF n = 0 THEN <<Leaves>>
    ELSE LET below == LevelsUpTo(n - 1)
         IN  Append(below, UNION {Nodes(below[i + 1], below[n - i]) : i \in 0..(n - 1)})

\* the operands of the root of an input, by their number of binary nodes
OperandLevels == LevelsUpTo(MaxOps - 1)

\* the trees with a binary root whose operands have s[1] and s[2] binary nodes
InputsOfShape(s) == Nodes(OperandLevels[s[1] + 1], OperandLevels[s[2] + 1])

\* the expressions main builds
MainExprs ==
    { <<"ETrue">>,
      <<"Or", <<"ETrue">>, <<"EFalse">>>>,
      <<"And", <<"EFalse">>, <<"EFalse">>>>,
      <<"And", <<"And", <<"One">>, <<"Zero">>>>, <<"Mult", <<"One">>, <<"One">>>>>>,
      <<"Plus", <<"One">>, <<"ETrue">>>>,
      <<"Or", <<"EFalse">>, <<"ETrue">>>>,
      <<"Or", <<"EFalse">>, <<"One">>>>,
      <<"Or", <<"ETrue">>, <<"One">>>> }

\* the inputs of the model are the literals, main's trees, and the binary
\* roots of these shapes: every tree of at most MaxOps binary nodes, and every
\* binary node over two trees of at most one binary node each
InputShapes ==
    {s \in (0..(MaxOps - 1)) \X (0..(MaxOps - 1)) : s[1] + s[2] < MaxOps}
        \cup ((0..1) \X (0..1))


\* Symbol with the symbol of Or copied to And
SymbolCopied(op) ==
    CASE op = "Plus" -> "+"
      [] op = "Mult" -> "*"
      [] op = "Or" -> "||"
      [] op = "And" -> "||"

Symbol(op) ==
    CASE op = "Plus" -> "+"
      [] op = "Mult" -> "*"
      [] op = "Or" -> "||"
      [] op = "And" -> "&&"

LiteralText(l) ==
    CASE l = "One" -> "1"
      [] l = "Zero" -> "0"
      [] l = "ETrue" -> "true"
      [] l = "EFalse" -> "false"

\* write!(f, "({} <symbol> {})", left, right)
WriteBinary(op, left, right) == "(" \o left \o " " \o Symbol(op) \o " " \o right \o ")"

\* impl Display for Expr
RECURSIVE fmt(_)
fmt(e) ==
    IF IsLeaf(e) THEN LiteralText(e[1])
    ELSE WriteBinary(e[1], fmt(e[2]), fmt(e[3]))

\* impl Display for Type
fmtType(t) ==
    CASE t = "IntType" -> "IntType"
      [] t = "BoolType" -> "BoolType"

----------------------------------------------------------------------------
(* typecheck.rs: typecheck *)

Ok(v) == <<"Ok", v>>

Err(m) == <<"Err", m>>

IsOk(r) == r[1] = "Ok"

IsErr(r) == r[1] = "Err"

\* the string literals of the four mismatch arms, word by word
PlusMessage == <<"Plus", "expression", "expects", "int", "types", "on", "both", "sides!", "">>

MultMessage == <<"Mult", "expression", "expects", "int", "types", "on", "both", "sides!", "">>

OrMessage == <<"Mult", "expression", "expects", "bool", "types", "on", "both", "sides!", "">>

AndMessage == <<"Mult", "expression", "expects", "bool", "types", "on", "both", "sides!", "">>

\* the words of a message joined by single spaces: the string itself
RECURSIVE Text(_)
Text(m) == IF Len(m) = 1 THEN m[1] ELSE m[1] \o " " \o Text(Tail(m))

LiteralType(l) ==
    CASE l = "One" -> "IntType"
      [] l = "Zero" -> "IntType"
      [] l = "ETrue" -> "BoolType"
      [] l = "EFalse" -> "BoolType"

\* MatchTypes looking at r1 alone
MatchTypesFirstOnly(op, t1, t2) ==
    CASE op = "Plus" -> IF t1 = "IntType" THEN Ok("IntType") ELSE Err(PlusMessage)
      [] op = "Mult" -> IF t1 = "IntType" THEN Ok("IntType") ELSE Err(MultMessage)
      [] op = "Or" -> IF t1 = "BoolType" THEN Ok("BoolType") ELSE Err(OrMessage)
      [] op = "And" -> IF t1 = "BoolType" THEN Ok("BoolType") ELSE Err(AndMessage)

\* match (r1, r2) of the arm of op
MatchTypes(op, t1, t2) ==
    CASE op = "Plus" ->
            IF t1 = "IntType" /\ t2 = "IntType" THEN Ok("IntType") ELSE Err(PlusMessage)
      [] op = "Mult" ->
            IF t1 = "IntType" /\ t2 = "IntType" THEN Ok("IntType") ELSE Err(MultMessage)
      [] op = "Or" ->
            IF t1 = "BoolType" /\ t2 = "BoolType" THEN Ok("BoolType") ELSE Err(OrMessage)
      [] op = "And" ->
            IF t1 = "BoolType" /\ t2 = "BoolType" THEN Ok("BoolType") ELSE Err(AndMessage)

\* CheckBinary reporting the failure of e2 before that of e1
CheckBinarySecondFirst(op, c1, c2) ==
    IF IsErr(c2) THEN c2
    ELSE IF IsErr(c1) THEN c1
    ELSE MatchTypes(op, c1[2], c2[2])

\* let r1 = typecheck(e1)?; let r2 = typecheck(e2)?; match (r1, r2) {...}
\* given what the two calls return (the second is only made if the first is Ok)
CheckBinary(op, c1, c2) ==
    IF IsErr(c1) THEN c1
    ELSE IF IsErr(c2) THEN c2
    ELSE MatchTypes(op, c1[2], c2[2])

RECURSIVE typecheck(_)
typecheck(e) ==
    IF IsLeaf(e) THEN Ok(LiteralType(e[1]))
    ELSE CheckBinary(e[1], typecheck(e[2]), typecheck(e[3]))

----------------------------------------------------------------------------
(* typecheck.rs: eval_t.  A value is <<"Left", n>> or <<"Right", b>>.  The  *)
(* i32 operators a + b and a * b abort the process on overflow when the    *)
(* build has overflow checks (the debug profile) and wrap around otherwise *)
(* (the release profile): `checks` is that choice.                         *)

Left(n) == <<"Left", n>>

Right(b) == <<"Right", b>>

Panic == <<"Panic">>

IsPanic(r) == r[1] = "Panic"

IncompatibleTypes == <<"Incompatible", "Types!">>

\* a + b modulo 2^32, as an i32, for i32 a and b
WrapAdd(a, b) ==
    IF a >= 0 /\ b >= 0 /\ a > I32Max - b THEN (a - I32Max - 1) + (b - I32Max - 1)
    ELSE IF a < 0 /\ b < 0 /\ a < I32Min - b THEN (a + I32Max + 1) + (b + I32Max + 1)
    ELSE a + b

AddOverflows(a, b) ==
    \/ a >= 0 /\ b >= 0 /\ a > I32Max - b
    \/ a < 0 /\ b < 0 /\ a < I32Min - b

\* 2 * a modulo 2^32, as an i32
Double(a) == WrapAdd(a, a)

\* 256 * a modulo 2^32, as an i32
Times256(a) == Double(Double(Double(Double(Double(Double(Double(Double(a))))))))

\* byte i of the two's complement representation of the i32 a (byte 0 the lowest)
Byte(a, i) ==
    CASE i = 0 -> a % 256
      [] i = 1 -> (a \div 256) % 256
      [] i = 2 -> (a \div 65536) % 256
      [] i = 3 -> (a \div 16777216) % 256

\* the sum of the products of the bytes of a and b of weight 256^k
Column(a, b, k) ==
    CASE k = 0 -> Byte(a, 0) * Byte(b, 0)
      [] k = 1 -> Byte(a, 0) * Byte(b, 1) + Byte(a, 1) * Byte(b, 0)
      [] k = 2 -> Byte(a, 0) * Byte(b, 2) + Byte(a, 1) * Byte(b, 1) + Byte(a, 2) * Byte(b, 0)
      [] k = 3 -> Byte(a, 0) * Byte(b, 3) + Byte(a, 1) * Byte(b, 2)
                    + Byte(a, 2) * Byte(b, 1) + Byte(a, 3) * Byte(b, 0)

\* a * b modulo 2^32, as an i32: the long multiplication of the bytes, the
\* columns of weight 256^4 and more dropped
WrapMul(a, b) ==
    WrapAdd(Column(a, b, 0),
        Times256(WrapAdd(Column(a, b, 1),
            Times256(WrapAdd(Column(a, b, 2),
                Times256(Column(a, b, 3)))))))

Abs(a) == IF a < 0 THEN -a ELSE a

MulOverflows(a, b) ==
    IF a = 0 \/ b = 0 THEN FALSE
    ELSE IF a = I32Min THEN b # 1
    ELSE IF b = I32Min THEN a # 1
    ELSE IF (a > 0) = (b > 0) THEN Abs(a) > I32Max \div Abs(b)
    ELSE /\ Abs(b) # 1
         /\ Abs(a) > (I32Max \div Abs(b)) + (IF I32Max % Abs(b) = Abs(b) - 1 THEN 1 ELSE 0)

\* Ok(Left(a + b))
AddI32(a, b, checks) ==
    IF AddOverflows(a, b) THEN (IF checks THEN Panic ELSE Ok(Left(WrapAdd(a, b))))
    ELSE Ok(Left(a + b))

\* Ok(Left(a * b))
MulI32(a, b, checks) ==
    IF MulOverflows(a, b) THEN (IF checks THEN Panic ELSE Ok(Left(WrapMul(a, b))))
    ELSE Ok(Left(a * b))

\* match (r1, r2) of the arm of op
MatchValues(op, v1, v2, checks) ==
    CASE op = "Plus" ->
            IF v1[1] = "Left" /\ v2[1] = "Left" THEN AddI32(v1[2], v2[2], checks)
            ELSE Err(IncompatibleTypes)
      [] op = "Mult" ->
            IF v1[1] = "Left" /\ v2[1] = "Left" THEN MulI32(v1[2], v2[2], checks)
            ELSE Err(IncompatibleTypes)
      [] op = "Or" ->
            IF v1[1] = "Right" /\ v2[1] = "Right" THEN Ok(Right(v1[2] \/ v2[2]))
            ELSE Err(IncompatibleTypes)
      [] op = "And" ->
            IF v1[1] = "Right" /\ v2[1] = "Right" THEN Ok(Right(v1[2] /\ v2[2]))
            ELSE Err(IncompatibleTypes)

\* let r1 = eval_t(..)?; let r2 = eval_t(..)?; match (r1, r2) {...}
\* given what the two calls do (a call that aborts ends the process)
EvalBinary(op, c1, c2, checks) ==
    IF IsPanic(c1) \/ IsErr(c1) THEN c1
    ELSE IF IsPanic(c2) \/ IsErr(c2) THEN c2
    ELSE MatchValues(op, c1[2], c2[2], checks)

\* SecondOperand with Mult evaluating e2 like the other arms
SecondOperandAlwaysE2(e) == e[3]

\* the expression the second call of the arm of e evaluates
SecondOperand(e) == IF e[1] = "Mult" THEN e[2] ELSE e[3]

RECURSIVE eval_t(_, _)
eval_t(e, checks) ==
    IF IsLeaf(e) THEN
        CASE e[1] = "One" -> Ok(Left(1))
          [] e[1] = "Zero" -> Ok(Left(0))
          [] e[1] = "ETrue" -> Ok(Right(TRUE))
          [] e[1] = "EFalse" -> Ok(Right(FALSE))
    ELSE EvalBinary(e[1], eval_t(e[2], checks), eval_t(SecondOperand(e), checks), checks)

----------------------------------------------------------------------------
(* main.rs: test, and the callers of eval_t *)

None == <<"None">>

Types == {"IntType", "BoolType"}

\* the state before the operation is called on e
Start(e) ==
    /\ expr = e
    /\ pc = "start"
    /\ rendered = ""
    /\ result = None
    /\ out = ""
    /\ value = None
    /\ stack = <<>>
    /\ ret = None
    /\ log = <<>>

\* the operation is about to be called on an input
StartOnInput ==
    \/ \E e \in Leaves \cup MainExprs : Start(e)
    \/ \E s \in InputShapes : \E e \in InputsOfShape(s) : Start(e)

Init ==
    /\ overflow_checks \in BOOLEAN
    /\ StartOnInput

\* expr.to_string(): Display::fmt writes the rendering
Render ==
    /\ pc = "start"
    /\ rendered' = fmt(expr)
    /\ pc' = "rendered"
    /\ UNCHANGED <<expr, overflow_checks, result, out, value, stack, ret, log>>

\* let result = typecheck(expr);
Typecheck ==
    /\ pc = "start"
    /\ result' = typecheck(expr)
    /\ pc' = "checked"
    /\ UNCHANGED <<expr, overflow_checks, rendered, out, value, stack, ret, log>>

\* match result { Err(e) => println!(..), Ok(_) => println!(..) }
PrintLine(e, res, expected_type) ==
    IF IsErr(res)
    THEN "Type Error when checking '" \o fmt(e) \o "': " \o Text(res[2])
    ELSE "Successfully checked '" \o fmt(e) \o "': " \o fmtType(expected_type)

Test(expected_type) ==
    /\ pc = "checked"
    /\ out' = PrintLine(expr, result, expected_type)
    /\ pc' = "printed"
    /\ UNCHANGED <<expr, overflow_checks, rendered, result, value, stack, ret, log>>

\* a call of eval_t(expr)
Eval ==
    /\ pc = "start"
    /\ value' = eval_t(expr, overflow_checks)
    /\ pc' = "evaluated"
    /\ UNCHANGED <<expr, overflow_checks, rendered, result, out, stack, ret, log>>

Next ==
    \/ Typecheck
    \/ \E t \in Types : Test(t)
    \/ Eval
    \/ Render

Spec == Init /\ [][Next]_vars

----------------------------------------------------------------------------
(* typecheck, call by call.  A frame is one call of typecheck: the node it  *)
(* checks, the node's path from the root (1 = e1, 2 = e2), where the call  *)
(* is ("call": entered, "e1": waiting for typecheck(e1), "e2": waiting for *)
(* typecheck(e2)) and its local r1.  The log records every call made, every *)
(* return, and every match (r1, r2) executed.                              *)

Frame(path, node) == [path |-> path, node |-> node, stage |-> "call", r1 |-> ""]

Top == stack[Len(stack)]

Pop == SubSeq(stack, 1, Len(stack) - 1)

SetTop(f) == [stack EXCEPT ![Len(stack)] = f]

CallEvent(path) == <<"call", path>>

MatchEvent(path) == <<"match", path>>

RetEvent(path, r) == <<"ret", path, r[1]>>

\* test: let result = typecheck(expr);  (the call is made)
TcStart ==
    /\ pc = "start"
    /\ pc' = "checking"
    /\ stack' = <<Frame(<<>>, expr)>>
    /\ UNCHANGED <<expr, overflow_checks, rendered, result, out, value, ret, log>>

\* the four literal arms
CheckLiteral ==
    /\ pc = "checking" /\ stack # <<>> /\ Top.stage = "call" /\ IsLeaf(Top.node)
    /\ ret' = Ok(LiteralType(Top.node[1]))
    /\ log' = log \o <<CallEvent(Top.path), RetEvent(Top.path, ret')>>
    /\ stack' = Pop
    /\ UNCHANGED <<expr, overflow_checks, rendered, pc, result, out, value>>

\* CallFirst calling typecheck(e2) where typecheck(e1) is meant
CallFirstOnE2 ==
    /\ pc = "checking" /\ stack # <<>> /\ Top.stage = "call" /\ ~IsLeaf(Top.node)
    /\ log' = Append(log, CallEvent(Top.path))
    /\ stack' = Append(SetTop([Top EXCEPT !.stage = "e1"]),
                       Frame(Append(Top.path, 2), Top.node[3]))
    /\ UNCHANGED <<expr, overflow_checks, rendered, pc, result, out, value, ret>>

\* a binary arm is entered: typecheck(e1) is called
CallFirst ==
    /\ pc = "checking" /\ stack # <<>> /\ Top.stage = "call" /\ ~IsLeaf(Top.node)
    /\ log' = Append(log, CallEvent(Top.path))
    /\ stack' = Append(SetTop([Top EXCEPT !.stage = "e1"]),
                       Frame(Append(Top.path, 1), Top.node[2]))
    /\ UNCHANGED <<expr, overflow_checks, rendered, pc, result, out, value, ret>>

\* let r1 = typecheck(e1)?;  then typecheck(e2) is called
FirstReturned ==
    /\ pc = "checking" /\ stack # <<>> /\ Top.stage = "e1" /\ ret # None
    /\ IF IsErr(ret)
       THEN /\ stack' = Pop
            /\ log' = Append(log, RetEvent(Top.path, ret))
            /\ ret' = ret
       ELSE /\ stack' = Append(SetTop([Top EXCEPT !.stage = "e2", !.r1 = ret[2]]),
                               Frame(Append(Top.path, 2), Top.node[3]))
            /\ log' = log
            /\ ret' = None
    /\ UNCHANGED <<expr, overflow_checks, rendered, pc, result, out, value>>

\* let r2 = typecheck(e2)?;  match (r1, r2) {...}
SecondReturned ==
    /\ pc = "checking" /\ stack # <<>> /\ Top.stage = "e2" /\ ret # None
    /\ IF IsErr(ret)
       THEN /\ ret' = ret
            /\ log' = Append(log, RetEvent(Top.path, ret))
       ELSE /\ ret' = MatchTypes(Top.node[1], Top.r1, ret[2])
            /\ log' = log \o <<MatchEvent(Top.path), RetEvent(Top.path, ret')>>
    /\ stack' = Pop
    /\ UNCHANGED <<expr, overflow_checks, rendered, pc, result, out, value>>

\* the outermost call returns to test
TcDone ==
    /\ pc = "checking" /\ stack = <<>> /\ ret # None
    /\ result' = ret
    /\ pc' = "checked"
    /\ UNCHANGED <<expr, overflow_checks, rendered, out, value, stack, ret, log>>

NextSteps ==
    \/ TcStart
    \/ CheckLiteral
    \/ CallFirst
    \/ FirstReturned
    \/ SecondReturned
    \/ TcDone
    \/ \E t \in Types : Test(t)

\* typecheck does no arithmetic: one build is enough
InitSteps ==
    /\ overflow_checks = TRUE
    /\ StartOnInput

SpecSteps == InitSteps /\ [][NextSteps]_vars

----------------------------------------------------------------------------
(* Deep inputs: chains of nested binary nodes over the literals, which are *)
(* the trees whose value grows fastest with the depth.                     *)

RECURSIVE ChainsOf(_)
ChainsOf(n) ==
    IF n = 0 THEN Leaves
    ELSE LET C == ChainsOf(n - 1)
         IN  C \cup {<<op, c, l>> : op \in {"Plus", "Mult"}, c \in C, l \in {<<"One">>, <<"ETrue">>}}

InitDeep ==
    /\ overflow_checks \in BOOLEAN
    /\ \E e \in ChainsOf(MaxChain) : Start(e)

SpecDeep == InitDeep /\ [][Next]_vars

----------------------------------------------------------------------------
(* The typing judgment, as the specification's table states it *)

OperatorSort(op) == IF op \in {"Plus", "Mult"} THEN "IntType" ELSE "BoolType"

LiteralSort(l) == IF l \in {"One", "Zero"} THEN "IntType" ELSE "BoolType"

\* the sort the judgment derives for e, or "none"
RECURSIVE SortOf(_)
SortOf(e) ==
    IF IsLeaf(e) THEN LiteralSort(e[1])
    ELSE IF SortOf(e[2]) = OperatorSort(e[1]) /\ SortOf(e[3]) = OperatorSort(e[1])
         THEN OperatorSort(e[1])
         ELSE "none"

IsPrefix(p, q) == Len(p) <= Len(q) /\ SubSeq(q, 1, Len(p)) = p

\* the node of e at path p
RECURSIVE Subtree(_, _)
Subtree(e, p) == IF p = <<>> THEN e ELSE Subtree(e[p[1] + 1], Tail(p))

\* the paths of the nodes of e in left-to-right post-order
RECURSIVE PostOrder(_, _)
PostOrder(e, p) ==
    IF IsLeaf(e) THEN <<p>>
    ELSE PostOrder(e[2], Append(p, 1)) \o PostOrder(e[3], Append(p, 2)) \o <<p>>

\* the node at p is a binary node over two well-typed operands of which one
\* has not the operator's sort
MismatchAt(e, p) ==
    LET n == Subtree(e, p)
    IN  /\ ~IsLeaf(n)
        /\ SortOf(n[2]) # "none" /\ SortOf(n[3]) # "none"
        /\ SortOf(n) = "none"

----------------------------------------------------------------------------
(* C1: typecheck agrees with the typing table: Ok(IntType) for One and     *)
(* Zero, Ok(BoolType) for ETrue and EFalse; a binary node succeeds iff     *)
(* both operands typecheck to the operator's sort, and then returns that   *)
(* sort; a cross-type operand makes it return Err.                         *)
C1_TypingTable ==
    pc = "checked" =>
        /\ IsLeaf(expr) => result = Ok(LiteralSort(expr[1]))
        /\ ~IsLeaf(expr) =>
              LET s == OperatorSort(expr[1])
                  both == typecheck(expr[2]) = Ok(s) /\ typecheck(expr[3]) = Ok(s)
              IN  /\ IsOk(result) <=> both
                  /\ both => result = Ok(s)
                  /\ ~both => IsErr(result)
        /\ IsOk(result) <=> SortOf(expr) # "none"
        /\ IsOk(result) => result[2] = SortOf(expr)
        /\ expr = <<"Plus", <<"One">>, <<"ETrue">>>> => IsErr(result)
        /\ expr = <<"Or", <<"EFalse">>, <<"One">>>> => IsErr(result)

C1_Witness ==
    /\ pc = "checked"
    /\ expr = <<"Plus", <<"One">>, <<"ETrue">>>>
    /\ result = Err(PlusMessage)

(* C2: fail-fast: if typecheck of the left operand of a binary node returns *)
(* Err(m), typecheck of the node returns exactly Err(m), whatever the right *)
(* operand is.                                                             *)
C2_FailFast ==
    (pc = "checked" /\ ~IsLeaf(expr) /\ IsErr(typecheck(expr[2]))) =>
        result = typecheck(expr[2])

\* the left operand fails and the right operand fails with another message
C2_Witness ==
    /\ pc = "checked"
    /\ ~IsLeaf(expr)
    /\ IsErr(typecheck(expr[2]))
    /\ IsErr(typecheck(expr[3]))
    /\ typecheck(expr[3]) # typecheck(expr[2])
    /\ result = typecheck(expr[2])

(* C3: the message of a type mismatch at a binary node names that node's   *)
(* operator and its constraint: Plus and Mult with int types, Or and And   *)
(* with bool types.                                                        *)
C3_MessageNamesOperator ==
    (/\ pc = "checked"
     /\ ~IsLeaf(expr)
     /\ IsOk(typecheck(expr[2]))
     /\ IsOk(typecheck(expr[3]))
     /\ IsErr(result)) =>
        /\ result[2][1] = expr[1]
        /\ result[2][4] = (IF expr[1] \in {"Plus", "Mult"} THEN "int" ELSE "bool")

(* C4: eval_t on a Plus or Mult node returns Ok only if both operands       *)
(* reduce to the integer variant, on an Or or And node only if both reduce *)
(* to the boolean variant, and Err otherwise.                              *)
C4_EvalRequiresBothOperands ==
    (pc = "evaluated" /\ ~IsLeaf(expr)) =>
        LET want == IF expr[1] \in {"Plus", "Mult"} THEN "Left" ELSE "Right"
            v1 == eval_t(expr[2], overflow_checks)
            v2 == eval_t(expr[3], overflow_checks)
            both == /\ IsOk(v1) /\ v1[2][1] = want
                    /\ IsOk(v2) /\ v2[2][1] = want
        IN  /\ IsOk(value) => both
            /\ ~both => IsErr(value)

C6_NoAbort ==
    /\ pc = "evaluated" => value[1] \in {"Ok", "Err"}
    /\ pc = "checked" => result[1] \in {"Ok", "Err"}

(* C7: Display writes "1", "0", "true", "false" for the literals and       *)
(* "(<left> <symbol> <right>)" for a binary node, with the renderings of   *)
(* its operands in that order and the symbol +, *, ||, && of its operator, *)
(* for ill-typed expressions too.                                          *)
C7_Rendering ==
    pc = "rendered" =>
        /\ expr = <<"One">> => rendered = "1"
        /\ expr = <<"Zero">> => rendered = "0"
        /\ expr = <<"ETrue">> => rendered = "true"
        /\ expr = <<"EFalse">> => rendered = "false"
        /\ ~IsLeaf(expr) =>
              LET sym == CASE expr[1] = "Plus" -> "+"
                           [] expr[1] = "Mult" -> "*"
                           [] expr[1] = "Or" -> "||"
                           [] expr[1] = "And" -> "&&"
              IN  rendered = "(" \o fmt(expr[2]) \o " " \o sym \o " " \o fmt(expr[3]) \o ")"
        /\ expr = <<"Or", <<"EFalse">>, <<"ETrue">>>> => rendered = "(false || true)"
        /\ expr = <<"And", <<"One">>, <<"Zero">>>> => rendered = "(1 && 0)"

\* the ill-typed And(And(One, Zero), Mult(One, One)) is rendered
C7_Witness ==
    /\ pc = "rendered"
    /\ expr = <<"And", <<"And", <<"One">>, <<"Zero">>>>, <<"Mult", <<"One">>, <<"One">>>>>>
    /\ rendered = "((1 && 0) && (1 * 1))"

(* C8: in every run of typecheck, the match of a binary node is executed   *)
(* only after the calls on both its operands have returned Ok; a node of   *)
(* the right operand's subtree is called only after the call on the left   *)
(* operand has returned Ok, and nothing of the left subtree happens after  *)
(* that; once the call on the left operand has returned Err, no node of    *)
(* the right operand's subtree is ever called; and the error returned is   *)
(* the one of the first mismatching node in left-to-right post-order.      *)
C8_TraversalOrder ==
    /\ \A i \in 1..Len(log) :
          LET ev == log[i]
              p == ev[2]
          IN  /\ ev[1] = "match" =>
                    /\ \E j \in 1..(i - 1) : log[j] = <<"ret", Append(p, 1), "Ok">>
                    /\ \E j \in 1..(i - 1) : log[j] = <<"ret", Append(p, 2), "Ok">>
              /\ ev[1] = "call" =>
                    \A n \in 1..Len(p) :
                        p[n] = 2 =>
                            LET left == Append(SubSeq(p, 1, n - 1), 1)
                            IN  \E j \in 1..(i - 1) :
                                    /\ log[j] = <<"ret", left, "Ok">>
                                    /\ \A k \in (j + 1)..Len(log) : ~IsPrefix(left, log[k][2])
              /\ (ev[1] = "ret" /\ ev[3] = "Err" /\ p # <<>> /\ p[Len(p)] = 1) =>
                    LET right == Append(SubSeq(p, 1, Len(p) - 1), 2)
                    IN  \A k \in 1..Len(log) : ~IsPrefix(right, log[k][2])
    /\ (pc = "checked" /\ IsErr(result)) =>
          LET po == PostOrder(expr, <<>>)
              failing == {i \in 1..Len(po) : MismatchAt(expr, po[i])}
              matches == {i \in 1..Len(log) : log[i][1] = "match"}
          IN  /\ failing # {}
              /\ matches # {}
              /\ LET first == po[CHOOSE i \in failing : \A j \in failing : i <= j]
                     last == log[CHOOSE i \in matches : \A j \in matches : j <= i]
                     n == Subtree(expr, first)
                 IN  /\ last[2] = first
                     /\ result = MatchTypes(n[1], SortOf(n[2]), SortOf(n[3]))

\* And(And(One, Zero), Mult(One, One)): the inner And fails and Mult(One, One)
\* is never called
C8_Witness ==
    /\ pc = "checked"
    /\ expr = <<"And", <<"And", <<"One">>, <<"Zero">>>>, <<"Mult", <<"One">>, <<"One">>>>>>
    /\ log = << <<"call", <<>>>>, <<"call", <<1>>>>,
                <<"call", <<1, 1>>>>, <<"ret", <<1, 1>>, "Ok">>,
                <<"call", <<1, 2>>>>, <<"ret", <<1, 2>>, "Ok">>,
                <<"match", <<1>>>>, <<"ret", <<1>>, "Err">>,
                <<"ret", <<>>, "Err">> >>
    /\ result = Err(AndMessage)

(* C9: typecheck(e) = Ok(IntType) iff eval_t(e) = Ok(Left(n)) for some n,  *)
(* typecheck(e) = Ok(BoolType) iff eval_t(e) = Ok(Right(b)) for some b,    *)
(* and typecheck(e) is Err exactly when eval_t(e) is Err.                  *)
C9_CheckerAgreesWithEvaluator ==
    pc = "evaluated" =>
        LET t == typecheck(expr)
        IN  /\ t = Ok("IntType") <=> (IsOk(value) /\ value[2][1] = "Left")
            /\ t = Ok("BoolType") <=> (IsOk(value) /\ value[2][1] = "Right")
            /\ IsErr(t) <=> IsErr(value)

(* C10: test prints the 'Type Error when checking' line with the rendering *)
(* and the checker's message when typecheck fails, and the 'Successfully   *)
(* checked' line with the rendering and the display name of the type that  *)
(* typecheck returned when it succeeds, for every expected_type.           *)
C10_PrintsCheckedType ==
    pc = "printed" =>
        out = IF IsErr(result)
              THEN "Type Error when checking '" \o fmt(expr) \o "': " \o Text(result[2])
              ELSE "Successfully checked '" \o fmt(expr) \o "': " \o result[2]

====
